---- MODULE Spec2Model ----
(***************************************************************************)
(* Titan blob garbage collection: the single-file scanner                  *)
(* (BlobFileIterator), the merge scanner (BlobFileMergeIterator) and the   *)
(* candidate picker (BasicBlobGCPicker::PickBlobGC).                       *)
(*                                                                         *)
(* A blob file is modelled by its layout: the header, a sequence of slots  *)
(* (a live record, or a block whose header bytes are zero), the optional   *)
(* dictionary and meta-index blocks and the footer.  Failed reads and      *)
(* decodes are outcomes chosen at each call.  Offsets are byte offsets.    *)
(* The read-ahead window of                                                *)
(* PrefetchAndGet only issues advisory prefetches whose result is ignored; *)
(* it never changes the cursor, the status or the valid flag and is left   *)
(* out.                                                                    *)
(***************************************************************************)
EXTENDS Integers, Sequences, FiniteSets, TLC

\* ------------------------------------------------------------------ bounds
\* Most slots in a modelled blob file.
MaxSlots == 2

\* ------------------------------------------------------ format constants
kRecordHeaderSize == 9
kFooterEncodedLength == 32
kBlockTrailerSize == 5
kMetaIndexBlockSize == 40
\* Size of the raw dictionary of the files that carry one.
RawDictSize == 7
\* BlobFileHeader::size() and BlobFileHeader::block_size of the modelled
\* files (block size 0: no alignment).  With header size 8 the first block
\* boundary lies beyond the header.
Layouts == {[hdr |-> 16, bs |-> 0], [hdr |-> 8, bs |-> 16], [hdr |-> 16, bs |-> 16]}
\* Payload lengths of the modelled records: one fits a block with its
\* header, the other needs two blocks.
PayloadSizes == {3, 10}

Roundup(x, y) == ((x + y - 1) \div y) * y


\* ------------------------------------------------------------- blob files
\* kind "rec": a live record; "zero": a slot whose header bytes are all zero
\* (a punched block when block_size > 0).  Corrupt bytes are an outcome of
\* the read that meets them (ReadOutcomes).
Slot(kind, size, key) == [kind |-> kind, size |-> size, key |-> key]

ScanSlots ==
    {Slot("rec", n, 0) : n \in PayloadSizes} \cup {Slot("zero", 0, 0)}

SeqsUpTo(S, n) == UNION {[1..k -> S] : k \in 0..n}

\* Bytes a slot occupies.
SlotLen(bs, s) ==
    IF s.kind = "zero"
    THEN (IF bs = 0 THEN kRecordHeaderSize ELSE bs)
    ELSE (IF bs = 0 THEN kRecordHeaderSize + s.size ELSE Roundup(kRecordHeaderSize + s.size, bs))

FirstOffset(f) == IF f.bs # 0 THEN Roundup(f.hdr, f.bs) ELSE f.hdr

RECURSIVE SlotStart(_, _)
SlotStart(f, i) ==
    IF i = 1 THEN FirstOffset(f) ELSE SlotStart(f, i - 1) + SlotLen(f.bs, f.slots[i - 1])

\* End of the record region: the last record is followed by its padding
\* only when the file says so.
EndOfRecords(f) ==
    LET n == Len(f.slots) IN
    IF n = 0 THEN FirstOffset(f)
    ELSE IF f.padded \/ f.slots[n].kind = "zero"
         THEN SlotStart(f, n) + SlotLen(f.bs, f.slots[n])
         ELSE SlotStart(f, n) + kRecordHeaderSize + f.slots[n].size

\* What follows the record region: tr.dict, the header's dictionary flag and
\* the dictionary block; tr.meta, the meta-index block the footer's handle
\* names.  Only Init reads it.
Trailers == [meta : BOOLEAN, dict : BOOLEAN]

FileSize(f, tr) ==
    EndOfRecords(f)
    + (IF tr.dict THEN RawDictSize + kBlockTrailerSize ELSE 0)
    + (IF tr.meta THEN kMetaIndexBlockSize + kBlockTrailerSize ELSE 0)
    + kFooterEncodedLength

\* A file as the writer and the hole puncher leave it: zero slots only in
\* block-aligned files.
WellFormed(f) == \A i \in 1..Len(f.slots) : f.slots[i].kind = "zero" => f.bs # 0

\* The writer rounds every record's end, the last one's too, up to the
\* next multiple of block_size.
EveryRecordPadded(f) == f.padded

\* The unpadded variant differs only for aligned files ending in a record.
CanBeUnpadded(bs, slots) ==
    /\ bs # 0
    /\ Len(slots) > 0
    /\ slots[Len(slots)].kind # "zero"

FilesOver(slotSet, n) ==
    {f \in [hdr : {l.hdr : l \in Layouts}, bs : {l.bs : l \in Layouts},
            slots : SeqsUpTo(slotSet, n), padded : BOOLEAN] :
        /\ [hdr |-> f.hdr, bs |-> f.bs] \in Layouts
        /\ ~f.padded => CanBeUnpadded(f.bs, f.slots)}

Files(n) == FilesOver(ScanSlots, n)

\* What a header read at offset o finds: the slot starting there, or bytes
\* from the middle of a record.
SlotAt(f, o) ==
    IF \E i \in 1..Len(f.slots) : SlotStart(f, i) = o
    THEN f.slots[CHOOSE i \in 1..Len(f.slots) : SlotStart(f, i) = o]
    ELSE Slot("garbage", 1, 0)

\* Start offsets of the live records, ascending.
RECURSIVE LiveFrom(_, _)
LiveFrom(f, i) ==
    IF i > Len(f.slots) THEN <<>>
    ELSE (IF f.slots[i].kind = "rec" THEN <<SlotStart(f, i)>> ELSE <<>>) \o LiveFrom(f, i + 1)

LiveOffsets(f) == LiveFrom(f, 1)

\* --------------------------------------------------------------- variables
VARIABLES
    file,      \* the blob file the scanner reads
    it,        \* the BlobFileIterator's fields
    pc,        \* "idle", or "scan" inside PrefetchAndGet's loop
    mode,      \* "seek": SeekToFirst and then only Next were called;
               \* "prev": IterateForPrev succeeded; "prevnext": and then Next
               \* was called once; "none": anything else
    yielded,   \* start offsets of the records produced in mode "seek"
    target,    \* the offset given to IterateForPrev, in its two modes
    initFailed, \* some step of some Init run has failed
    \* the merge scanner
    mfiles,    \* the blob file of each child scanner
    blob_file_iterators_, \* the child scanners' fields
    min_heap_, \* how many entries of the heap point to each child
    current_,  \* the index of the current child (0: nullptr)
    mstatus_,  \* the merge scanner's own status_
    emitted,   \* the keys the merge scanner was positioned on since the last seek
    childFailed, \* a child scanner failed in a call made for the merge scanner
    seeks,     \* calls of the merge scanner's SeekToFirst so far
    \* the picker
    pin,       \* the arguments and options of one PickBlobGC call
    pout       \* what the call returned ("pending" before it)

iterVars == <<file, it, pc, mode, yielded, target, initFailed>>

mergeVars == <<mfiles, blob_file_iterators_, min_heap_, current_, mstatus_, emitted, childFailed, seeks>>

pickVars == <<pin, pout>>

vars == <<iterVars, mergeVars, pickVars>>

\* ------------------------------------------------------- BlobFileIterator
NewIterator ==
    [init_ |-> FALSE, status_ |-> "ok", valid_ |-> FALSE,
     header_size_ |-> 0, block_size_ |-> 0, end_of_blob_record_ |-> 0,
     iterate_offset_ |-> 0, cur_record_offset_ |-> 0, cur_record_size_ |-> 0,
     cur_key |-> 0]

\* Outcomes of the steps of Init: all succeed, or one of them fails.
InitOutcomes == {"ok", "header_read", "header_decode", "footer_read", "footer_decode", "dict_load"}

\* The outcomes in which a step of Init fails on file f (the dictionary is
\* loaded only when the header's flag is set).
InitStepFails(tr, out) ==
    out \in {"header_read", "header_decode", "footer_read", "footer_decode"} \/ (out = "dict_load" /\ tr.dict)

\* The steps that make Init return false.
InitReportsFailure(tr, out) ==
    out \in {"header_read", "header_decode", "footer_read"} \/ (out = "dict_load" /\ tr.dict)

\* BlobFileIterator::Init.  A footer that fails to decode leaves status_
\* non-ok only until the dictionary load overwrites it; Init goes on either
\* way.  The footer's handle is decoded before its magic number is checked:
\* the modelled decode failure leaves the handle as the file has it.
Init_(i, f, tr, out) ==
    LET isNull == ~tr.meta
        end0 == FileSize(f, tr) - kFooterEncodedLength
        end1 == IF isNull THEN end0 ELSE end0 - (kMetaIndexBlockSize + kBlockTrailerSize)
        end2 == IF tr.dict THEN end1 - (RawDictSize + kBlockTrailerSize) ELSE end1
    IN
    CASE out = "header_read" -> [i EXCEPT !.status_ = "IOError"]
      [] out = "header_decode" -> [i EXCEPT !.status_ = "Corruption"]
      [] out = "footer_read" -> [i EXCEPT !.status_ = "IOError", !.header_size_ = f.hdr]
      [] InitReportsFailure(tr, out) ->
            [i EXCEPT !.status_ = "IOError", !.header_size_ = f.hdr,
                      !.end_of_blob_record_ = end1]
      [] OTHER ->
            [i EXCEPT !.status_ = IF out = "footer_decode" /\ ~tr.dict THEN "Corruption" ELSE "ok",
                      !.header_size_ = f.hdr,
                      !.end_of_blob_record_ = end2,
                      !.block_size_ = f.bs,
                      !.init_ = TRUE]

\* BlobFileIterator::Valid
ValidMutant(i) == i.valid_

Valid(i) == i.valid_ /\ i.status_ = "ok"

\* Outcomes of the reads of one GetBlobRecord call.
ReadOutcomes == {"ok", "header_io", "header_decode", "payload_io"}

\* Cursor after a decoded record.
AfterRecordMutant(i, size) ==
    LET next == kRecordHeaderSize + size IN
    IF i.block_size_ # 0 THEN Roundup(next, i.block_size_) ELSE next

AfterRecord(i, size) ==
    LET next == i.iterate_offset_ + kRecordHeaderSize + size IN
    IF i.block_size_ # 0 THEN Roundup(next, i.block_size_) ELSE next

\* BlobFileIterator::GetBlobRecord: the iterator after the call, whether a
\* record was decoded, and what the header read found.
GetBlobRecord(i, f, io) ==
    LET s == SlotAt(f, i.iterate_offset_) IN
    IF io = "header_io"
    THEN [it |-> [i EXCEPT !.status_ = "IOError"], live |-> FALSE, read |-> "fail"]
    ELSE IF s.kind = "zero"
    THEN [it |-> [i EXCEPT !.status_ = "ok"], live |-> FALSE, read |-> "zero"]
    ELSE IF io = "header_decode"
    THEN [it |-> [i EXCEPT !.status_ = "Corruption"], live |-> FALSE, read |-> "fail"]
    ELSE IF io = "payload_io"
    THEN [it |-> [i EXCEPT !.status_ = "IOError"], live |-> FALSE, read |-> "fail"]
    ELSE IF s.kind # "rec"
    THEN [it |-> [i EXCEPT !.status_ = "Corruption"], live |-> FALSE, read |-> "fail"]
    ELSE [it |-> [i EXCEPT !.status_ = "ok",
                           !.cur_record_offset_ = i.iterate_offset_,
                           !.cur_record_size_ = kRecordHeaderSize + s.size,
                           !.cur_key = s.key,
                           !.iterate_offset_ = AfterRecord(i, s.size),
                           !.valid_ = TRUE],
          live |-> TRUE, read |-> "live"]

\* Cursor after a slot whose payload-length field is zero.
SkipHoleMutant(i) == i.iterate_offset_ + 2 * i.block_size_

SkipHole(i) == i.iterate_offset_ + i.block_size_

\* One iteration of PrefetchAndGet's loop: the iterator after it, and
\* whether PrefetchAndGet returns.
LoopBody(i, f, io) ==
    LET g == GetBlobRecord(i, f, io) IN
    IF g.live \/ g.it.status_ # "ok"
    THEN [it |-> g.it, returns |-> TRUE, read |-> g.read]
    ELSE [it |-> [g.it EXCEPT !.iterate_offset_ = SkipHole(g.it)], returns |-> FALSE,
          read |-> g.read]

\* PrefetchAndGet's loop condition.
InLoopMutant(i) == i.iterate_offset_ + i.block_size_ < i.end_of_blob_record_

InLoop(i) == i.iterate_offset_ < i.end_of_blob_record_

\* Where SeekToFirst and IterateForPrev start.
SeekStart(i) ==
    IF i.block_size_ # 0 THEN Roundup(i.header_size_, i.block_size_) ELSE i.header_size_

\* The header walk of IterateForPrev from offset off towards t: the cursor,
\* the last total_length and the status when the loop ends.  failAt counts
\* the header reads down to the one that fails (0: none fails).
RECURSIVE Walk(_, _, _, _, _, _)
Walk(f, bs, off, t, total, failAt) ==
    IF ~(off < t) THEN [off |-> off, total |-> total, status |-> "ok"]
    ELSE IF failAt = 1 THEN [off |-> off, total |-> total, status |-> "IOError"]
    ELSE LET len == kRecordHeaderSize + SlotAt(f, off).size
             tl == IF bs # 0 THEN Roundup(len, bs) ELSE len
         IN Walk(f, bs, off + tl, t, tl, IF failAt = 0 THEN 0 ELSE failAt - 1)

\* The rewind after the walk.
RewindMutant(off, t, total) == IF off >= t THEN off - total ELSE off

Rewind(off, t, total) == IF off > t THEN off - total ELSE off

\* BlobFileIterator::IterateForPrev on an initialised iterator.
IterateForPrevFrom(i, f, t, failAt) ==
    IF t >= i.end_of_blob_record_
    THEN [i EXCEPT !.iterate_offset_ = t, !.status_ = "InvalidArgument"]
    ELSE LET w == Walk(f, i.block_size_, SeekStart(i), t, 0, failAt) IN
         IF w.status # "ok"
         THEN [i EXCEPT !.iterate_offset_ = w.off, !.status_ = w.status]
         ELSE [i EXCEPT !.iterate_offset_ = Rewind(w.off, t, w.total), !.status_ = "ok",
                        !.valid_ = FALSE]

\* SeekToFirst on an initialised iterator, up to its call of PrefetchAndGet.
SeekToFirstEntry(i) == [i EXCEPT !.status_ = "ok", !.iterate_offset_ = SeekStart(i)]

\* PrefetchAndGet run to its return on a file whose zero slots are blocks:
\* the first loop iteration's reads have outcome io, the later ones succeed.
RECURSIVE PrefetchAndGet(_, _, _)
PrefetchAndGet(i, f, io) ==
    IF ~InLoop(i) THEN [i EXCEPT !.valid_ = FALSE]
    ELSE LET r == LoopBody(i, f, io) IN
         IF r.returns THEN r.it ELSE PrefetchAndGet(r.it, f, "ok")

\* ------------------------------------------------- single-file scanner
InitIter ==
    /\ file \in Files(MaxSlots)
    /\ it = NewIterator
    /\ pc = "idle"
    /\ mode = "none"
    /\ yielded = <<>>
    /\ target = 0
    /\ initFailed = FALSE

\* "if (!init_ && !Init()) return": the iterator after it.
EnsureInit(out, tr) == IF it.init_ THEN it ELSE Init_(it, file, tr, out)

\* BlobFileIterator::SeekToFirst up to its call of PrefetchAndGet.
SeekToFirst(out, tr) ==
    /\ pc = "idle"
    /\ LET i1 == EnsureInit(out, tr) IN
       /\ initFailed' = (initFailed \/ (~it.init_ /\ InitStepFails(tr, out)))
       /\ IF ~i1.init_
          THEN /\ it' = i1
               /\ pc' = "idle"
               /\ mode' = "none"
          ELSE /\ it' = SeekToFirstEntry(i1)
               /\ pc' = "scan"
               /\ mode' = "seek"
    /\ yielded' = <<>>
    /\ target' = 0
    /\ UNCHANGED <<file, mergeVars, pickVars>>

\* BlobFileIterator::Next up to its call of PrefetchAndGet (it asserts init_).
IterNext ==
    /\ pc = "idle"
    /\ it.init_
    /\ pc' = "scan"
    /\ mode' = CASE mode = "prev" -> "prevnext"
                [] mode = "prevnext" -> "none"
                [] OTHER -> mode
    /\ target' = IF mode = "prev" THEN target ELSE 0
    /\ UNCHANGED <<file, it, yielded, initFailed, mergeVars, pickVars>>

\* One iteration of PrefetchAndGet's loop.
PrefetchAndGetStep(io) ==
    /\ pc = "scan"
    /\ InLoop(it)
    /\ LET r == LoopBody(it, file, io) IN
       /\ it' = r.it
       /\ pc' = IF r.returns THEN "idle" ELSE "scan"
       /\ yielded' = IF r.read = "live" /\ mode = "seek"
                     THEN Append(yielded, r.it.cur_record_offset_) ELSE yielded
    /\ UNCHANGED <<file, mode, target, initFailed, mergeVars, pickVars>>

\* PrefetchAndGet leaves its loop at the end of the record region.
PrefetchAndGetExit ==
    /\ pc = "scan"
    /\ ~InLoop(it)
    /\ it' = [it EXCEPT !.valid_ = FALSE]
    /\ pc' = "idle"
    /\ UNCHANGED <<file, mode, yielded, target, initFailed, mergeVars, pickVars>>

\* BlobFileIterator::IterateForPrev
IterateForPrev(t, failAt, out, tr) ==
    /\ pc = "idle"
    /\ LET i1 == EnsureInit(out, tr) IN
       /\ initFailed' = (initFailed \/ (~it.init_ /\ InitStepFails(tr, out)))
       /\ IF ~i1.init_
          THEN /\ it' = i1
               /\ mode' = "none"
               /\ target' = 0
          ELSE LET i2 == IterateForPrevFrom(i1, file, t, failAt) IN
               /\ it' = i2
               /\ mode' = IF i2.status_ = "ok" THEN "prev" ELSE "none"
               /\ target' = IF i2.status_ = "ok" THEN t ELSE 0
    /\ yielded' = <<>>
    /\ UNCHANGED <<file, pc, mergeVars, pickVars>>

\* The offsets IterateForPrev is called with: every offset within one byte
\* of a boundary of the file's layout (the walk treats alike the offsets
\* strictly between two boundaries).
Boundaries(f) ==
    {0, f.hdr, FirstOffset(f), EndOfRecords(f)} \cup {SlotStart(f, i) : i \in 1..Len(f.slots)}

Targets(f) == {t \in 0..(EndOfRecords(f) + 1) : \E b \in Boundaries(f) : t \in (b - 1)..(b + 1)}

\* Init runs only on an iterator not yet initialised.
InitChoices == IF it.init_ THEN {"ok"} ELSE InitOutcomes

TrailerChoices == IF it.init_ THEN {[meta |-> FALSE, dict |-> FALSE]} ELSE Trailers

NextIter ==
    \/ \E out \in InitChoices, tr \in TrailerChoices : SeekToFirst(out, tr)
    \/ IterNext
    \/ \E io \in ReadOutcomes : PrefetchAndGetStep(io)
    \/ PrefetchAndGetExit
    \/ \E out \in InitChoices, tr \in TrailerChoices :
          \E t \in Targets(file), failAt \in 0..Len(file.slots) :
             IterateForPrev(t, failAt, out, tr)

\* ------------------------------------------------------ merge scanner
\* Most records in a child's blob file.
MaxChildRecords == 2
\* Most calls of the merge scanner's SeekToFirst in one behaviour.
MaxSeeks == 2
\* Keys of the children's records.
Keys == {1, 2}

\* blob_file_iterators_ holds two child scanners, indexed 1 and 2.
Children == {1, 2}

NonDecreasing(q) == \A a, b \in 1..Len(q) : a <= b => q[a] <= q[b]

KeysOf(f) == [k \in 1..Len(f.slots) |-> f.slots[k].key]

\* The children's files: block-aligned, records only, keys in order.
MergeFiles(n) ==
    {[hdr |-> 16, bs |-> 16, slots |-> q, padded |-> TRUE] :
        q \in {r \in SeqsUpTo({Slot("rec", 3, k) : k \in Keys}, n) :
                  NonDecreasing([j \in 1..Len(r) |-> r[j].key])}}

\* What goes wrong in one call of a child: nothing, a step of Init (when the
\* call runs Init), or the first read of PrefetchAndGet.
ChildFaults == {"ok", "init", "io"}

NoTrailer == [meta |-> FALSE, dict |-> FALSE]

\* BlobFileIterator::SeekToFirst, run to its return.
ChildSeekToFirst(i, f, fault) ==
    LET i1 == IF i.init_ THEN i
              ELSE Init_(i, f, NoTrailer, IF fault = "init" THEN "header_read" ELSE "ok")
    IN IF ~i1.init_ THEN i1
       ELSE PrefetchAndGet(SeekToFirstEntry(i1), f, IF fault = "io" THEN "header_io" ELSE "ok")

\* BlobFileIterator::Next, run to its return.
ChildNext(i, f, fault) == PrefetchAndGet(i, f, IF fault = "io" THEN "header_io" ELSE "ok")

\* BlobFileMergeIterator::status(): the current child's status when it is
\* non-ok, else the merge scanner's own.
MergeStatusOf(cur, own, its) ==
    IF cur # 0 /\ its[cur].status_ # "ok" THEN its[cur].status_ ELSE own

\* BlobFileMergeIterator::Valid
MergeValidOf(cur, own, its) ==
    /\ cur # 0
    /\ MergeStatusOf(cur, own, its) = "ok"
    /\ Valid(its[cur]) /\ its[cur].status_ = "ok"

MergeValid == MergeValidOf(current_, mstatus_, blob_file_iterators_)

MergeStatus == MergeStatusOf(current_, mstatus_, blob_file_iterators_)

\* "if (iter->status().ok() && iter->Valid()) min_heap_.push(iter)"
PushIfValidMutant(heap, c, i) == [heap EXCEPT ![c] = @ + 1]

PushIfValid(heap, c, i) ==
    IF i.status_ = "ok" /\ Valid(i) THEN [heap EXCEPT ![c] = @ + 1] ELSE heap

HeapEmpty(heap) == \A c \in Children : heap[c] = 0

\* min_heap_.top(): an entry whose child's key no other entry's key
\* precedes (BlobFileIterComparator orders the heap by the children's keys).
Tops(heap, its) ==
    {c \in Children : heap[c] > 0 /\ \A d \in Children : heap[d] > 0 => its[c].cur_key <= its[d].cur_key}

Pop(heap, c) == [heap EXCEPT ![c] = @ - 1]

\* All children sought in turn, each pushed when it is valid.
RECURSIVE SeekAll(_, _, _, _)
SeekAll(its, heap, faults, c) ==
    IF c \notin Children THEN [its |-> its, heap |-> heap]
    ELSE LET i == ChildSeekToFirst(its[c], mfiles[c], faults[c]) IN
         SeekAll([its EXCEPT ![c] = i], PushIfValid(heap, c, i), faults, c + 1)

InitMerge ==
    /\ mfiles \in [Children -> MergeFiles(MaxChildRecords)]
    /\ blob_file_iterators_ = [c \in Children |-> NewIterator]
    /\ min_heap_ = [c \in Children |-> 0]
    /\ current_ = 0
    /\ mstatus_ = "ok"
    /\ emitted = <<>>
    /\ childFailed = FALSE
    /\ seeks = 0

\* BlobFileMergeIterator::SeekToFirst
MergeSeekToFirst(faults) ==
    /\ seeks < MaxSeeks
    /\ LET r == SeekAll(blob_file_iterators_, min_heap_, faults, 1) IN
       /\ blob_file_iterators_' = r.its
       /\ childFailed' = (childFailed \/ \E c \in Children : r.its[c].status_ # "ok")
       /\ IF ~HeapEmpty(r.heap)
          THEN \E t \in Tops(r.heap, r.its) :
                  /\ current_' = t
                  /\ min_heap_' = Pop(r.heap, t)
                  /\ mstatus_' = mstatus_
          ELSE /\ mstatus_' = "Aborted"
               /\ UNCHANGED <<current_, min_heap_>>
    /\ emitted' = IF MergeValid' THEN <<blob_file_iterators_'[current_'].cur_key>> ELSE <<>>
    /\ seeks' = seeks + 1
    /\ UNCHANGED <<mfiles, iterVars, pickVars>>

\* BlobFileMergeIterator::Next (it asserts Valid())
MergeNext(fault) ==
    /\ MergeValid
    /\ LET i == ChildNext(blob_file_iterators_[current_], mfiles[current_], fault)
           its == [blob_file_iterators_ EXCEPT ![current_] = i]
           heap == PushIfValid(min_heap_, current_, i)
       IN
       /\ blob_file_iterators_' = its
       /\ childFailed' = (childFailed \/ i.status_ # "ok")
       /\ IF ~HeapEmpty(heap)
          THEN \E t \in Tops(heap, its) :
                  /\ current_' = t
                  /\ min_heap_' = Pop(heap, t)
          ELSE /\ current_' = 0
               /\ min_heap_' = heap
    /\ mstatus_' = mstatus_
    /\ emitted' = IF MergeValid' THEN Append(emitted, blob_file_iterators_'[current_'].cur_key) ELSE emitted
    /\ UNCHANGED <<mfiles, seeks, iterVars, pickVars>>

NextMerge ==
    \/ \E faults \in [Children -> ChildFaults] : MergeSeekToFirst(faults)
    \/ \E fault \in {"ok", "io"} : MergeNext(fault)

\* ------------------------------------------------------ candidate picker
\* Most candidates in the two score lists of one call, taken together.
MaxCandidates == 3

\* Scores are hundredths: 100 is the score 1.0, and two scores differ by
\* more than the machine epsilon exactly when they differ.
One == 100

Absent == [state |-> "absent", file_size |-> 0, live_data_size |-> 0]

Meta(state, size, live) == [state |-> state, file_size |-> size, live_data_size |-> live]

\* What FindFile resolves a candidate of the punch-hole list to.
PunchMetas == {Absent, Meta("kBeingGC", 1, 1), Meta("kNormal", 3, 1)}

\* What FindFile resolves a candidate of the GC list to.
GcMetas ==
    {Absent, Meta("kBeingGC", 1, 1), Meta("kNormal", 1, 1), Meta("kNormal", 1, 0), Meta("kNormal", 3, 1)}

PunchScores == {20, 60}

GcScores == {One, 60}

Ascending(q) == \A a, b \in 1..Len(q) : a <= b => q[a].score <= q[b].score

Descending(q) == \A a, b \in 1..Len(q) : a <= b => q[a].score >= q[b].score

\* punch_hole_score(): ascending scores; gc_score(): descending scores.
PunchLists(n) == {q \in [1..n -> [score : PunchScores, meta : PunchMetas]] : Ascending(q)}

GcLists(n) == {q \in [1..n -> [score : GcScores, meta : GcMetas]] : Descending(q)}

PickOptions ==
    [blob_file_discardable_ratio : {50},
     max_gc_batch_size : {2, 4},
     min_gc_batch_size : {1, 3},
     blob_file_target_size : {2, 5},
     merge_small_file_threshold : {1},
     in_fallback : BOOLEAN]

\* The blob storage one call sees: candidate k of the punch-hole list is
\* file k, candidate k of the GC list is file Len(punch) + k.
Storage(punch, gc) ==
    [punch_hole_score |-> [k \in 1..Len(punch) |-> [file_number |-> k, score |-> punch[k].score]],
     gc_score |-> [k \in 1..Len(gc) |-> [file_number |-> Len(punch) + k, score |-> gc[k].score]],
     files |-> [n \in 1..(Len(punch) + Len(gc)) |->
                   IF n <= Len(punch) THEN punch[n].meta ELSE gc[n - Len(punch)].meta]]

\* The calls with np punch-hole candidates and ng GC candidates.
PickInputs(np, ng) ==
    {[storage |-> Storage(pu, gc), opts |-> o] : pu \in PunchLists(np), gc \in GcLists(ng), o \in PickOptions}

\* BlobStorage::FindFile(...).lock()
FindFile(storage, n) == storage.files[n]

\* BasicBlobGCPicker::CheckBlobFile
CheckBlobFileMutant(m) == m.state # "absent"

CheckBlobFile(m) == ~(m.state = "absent" \/ m.state # "kNormal")

\* BlobFileMeta::GetDiscardableRatio() < ratio, in hundredths: the share of
\* the file's bytes that are not live.
DiscardableRatioBelow(m, ratio) ==
    m.file_size # 0 /\ (m.file_size - m.live_data_size) * 100 < ratio * m.file_size

\* The locals of PickBlobGC.
PickLocals ==
    [blob_files |-> <<>>, batch_size |-> 0, estimate_output_size |-> 0, stop_picking |-> FALSE,
     maybe_continue_next_time |-> FALSE, next_gc_size |-> 0, crashed |-> FALSE]

\* The first loop of PickBlobGC from candidate k on.  The log call of a
\* skipped candidate reads the file number through the looked-up pointer:
\* when the lookup resolved to absent that is a null dereference, which
\* either ends the process (nullDeref "crash") or goes unnoticed.
RECURSIVE PunchHoleLoop(_, _, _, _, _)
PunchHoleLoop(storage, opts, nullDeref, k, a) ==
    IF k > Len(storage.punch_hole_score) THEN a
    ELSE LET e == storage.punch_hole_score[k]
             m == FindFile(storage, e.file_number)
         IN
         IF e.score >= opts.blob_file_discardable_ratio THEN a
         ELSE IF ~CheckBlobFile(m)
         THEN (IF m.state = "absent" /\ nullDeref = "crash"
               THEN [a EXCEPT !.crashed = TRUE]
               ELSE PunchHoleLoop(storage, opts, nullDeref, k + 1, a))
         ELSE IF ~a.stop_picking
         THEN PunchHoleLoop(storage, opts, nullDeref, k + 1,
                  [a EXCEPT !.blob_files = Append(@, e.file_number),
                            !.batch_size = @ + m.file_size,
                            !.stop_picking = (a.batch_size + m.file_size >= opts.max_gc_batch_size)])
         ELSE [a EXCEPT !.maybe_continue_next_time = TRUE]

\* "batch_size >= max_gc_batch_size || estimate_output_size >=
\* blob_file_target_size": the second loop stops picking.
StopPickingMutant(opts, batch_size, estimate_output_size) ==
    batch_size >= opts.max_gc_batch_size

StopPicking(opts, batch_size, estimate_output_size) ==
    \/ batch_size >= opts.max_gc_batch_size
    \/ estimate_output_size >= opts.blob_file_target_size

\* "next_gc_size > min_gc_batch_size || in_fallback": enough remains for
\* another GC after this one.
RemainsEnoughMutant(opts, next_gc_size) ==
    next_gc_size >= opts.min_gc_batch_size \/ opts.in_fallback

RemainsEnough(opts, next_gc_size) ==
    next_gc_size > opts.min_gc_batch_size \/ opts.in_fallback

\* "in_fallback && abs(1.0 - score) > epsilon": the second loop ends at
\* this candidate.
NotAllDiscardedMutant(opts, score) == ~opts.in_fallback /\ score # One

NotAllDiscarded(opts, score) == opts.in_fallback /\ score # One

\* The second loop of PickBlobGC from candidate k on.
RECURSIVE GcLoop(_, _, _, _, _)
GcLoop(storage, opts, nullDeref, k, a) ==
    IF k > Len(storage.gc_score) THEN a
    ELSE LET e == storage.gc_score[k]
             m == FindFile(storage, e.file_number)
         IN
         IF NotAllDiscarded(opts, e.score) THEN a
         ELSE IF ~CheckBlobFile(m)
         THEN (IF m.state = "absent" /\ nullDeref = "crash"
               THEN [a EXCEPT !.crashed = TRUE]
               ELSE GcLoop(storage, opts, nullDeref, k + 1, a))
         ELSE IF ~a.stop_picking
         THEN GcLoop(storage, opts, nullDeref, k + 1,
                  [a EXCEPT !.blob_files = Append(@, e.file_number),
                            !.batch_size = @ + m.file_size,
                            !.estimate_output_size = @ + m.live_data_size,
                            !.stop_picking =
                                StopPicking(opts, a.batch_size + m.file_size,
                                            a.estimate_output_size + m.live_data_size)])
         ELSE IF RemainsEnough(opts, a.next_gc_size + m.file_size)
         THEN [a EXCEPT !.next_gc_size = @ + m.file_size, !.maybe_continue_next_time = TRUE]
         ELSE GcLoop(storage, opts, nullDeref, k + 1, [a EXCEPT !.next_gc_size = @ + m.file_size])

NoPlan == [kind |-> "nullptr"]

Crash == [kind |-> "crash"]

Plan(a, punch_hole) ==
    [kind |-> "plan", files |-> a.blob_files,
     maybe_continue_next_time |-> a.maybe_continue_next_time, punch_hole |-> punch_hole]

\* The checks PickBlobGC makes on the batch of the second loop outside
\* fallback mode.
RejectBatchMutant(storage, opts, a) ==
    /\ a.batch_size < opts.min_gc_batch_size
    /\ a.estimate_output_size < opts.blob_file_target_size

RejectBatchSmallOnly(storage, opts, a) ==
    /\ Len(a.blob_files) = 1
    /\ FindFile(storage, a.blob_files[1]).file_size <= opts.merge_small_file_threshold
    /\ DiscardableRatioBelow(FindFile(storage, a.blob_files[1]), opts.blob_file_discardable_ratio)

RejectBatch(storage, opts, a) ==
    \/ /\ a.batch_size < opts.min_gc_batch_size
       /\ a.estimate_output_size < opts.blob_file_target_size
    \/ /\ Len(a.blob_files) = 1
       /\ FindFile(storage, a.blob_files[1]).file_size <= opts.merge_small_file_threshold
       /\ DiscardableRatioBelow(FindFile(storage, a.blob_files[1]), opts.blob_file_discardable_ratio)

\* "if (!blob_files.empty()) return ... punch_hole=true" after the first loop.
PunchPlanReturned(a) == a.blob_files # <<>>

\* BasicBlobGCPicker::PickBlobGC
PickBlobGC(storage, opts, nullDeref) ==
    LET a1 == PunchHoleLoop(storage, opts, nullDeref, 1, PickLocals) IN
    IF a1.crashed THEN Crash
    ELSE IF PunchPlanReturned(a1) THEN Plan(a1, TRUE)
    ELSE LET a2 == GcLoop(storage, opts, nullDeref, 1, a1) IN
         IF a2.crashed THEN Crash
         ELSE IF a2.blob_files = <<>> THEN NoPlan
         ELSE IF ~opts.in_fallback /\ RejectBatch(storage, opts, a2) THEN NoPlan
         ELSE Plan(a2, FALSE)

InitPick ==
    /\ \E np \in 0..MaxCandidates : \E ng \in 0..(MaxCandidates - np) : pin \in PickInputs(np, ng)
    /\ pout = [kind |-> "pending"]

\* One call of PickBlobGC.
Pick(nullDeref) ==
    /\ pout.kind = "pending"
    /\ pout' = PickBlobGC(pin.storage, pin.opts, nullDeref)
    /\ UNCHANGED <<pin, iterVars, mergeVars>>

NextPick == \E nullDeref \in {"crash", "unnoticed"} : Pick(nullDeref)

\* --------------------------------------------------------- specifications
\* Each component is checked on its own; the other two stay parked.
IterParked ==
    /\ file = [hdr |-> 16, bs |-> 0, slots |-> <<>>, padded |-> TRUE]
    /\ it = NewIterator
    /\ pc = "idle"
    /\ mode = "none"
    /\ yielded = <<>>
    /\ target = 0
    /\ initFailed = FALSE

MergeParked ==
    /\ mfiles = <<>>
    /\ blob_file_iterators_ = <<>>
    /\ min_heap_ = <<>>
    /\ current_ = 0
    /\ mstatus_ = "ok"
    /\ emitted = <<>>
    /\ childFailed = FALSE
    /\ seeks = 0

PickParked ==
    /\ pin = [storage |-> Storage(<<>>, <<>>), opts |-> CHOOSE o \in PickOptions : TRUE]
    /\ pout = [kind |-> "parked"]

Init == InitIter /\ MergeParked /\ PickParked

Next == NextIter

Spec == Init /\ [][Next]_vars

InitM == InitMerge /\ IterParked /\ PickParked

SpecMerge == InitM /\ [][NextMerge]_vars

InitP == InitPick /\ IterParked /\ MergeParked

SpecPicker == InitP /\ [][NextPick]_vars

\* ------------------------------------------------ single-file scanner: claims
IsPrefix(a, b) == Len(a) <= Len(b) /\ a = SubSeq(b, 1, Len(a))

SeqToSet(q) == {q[k] : k \in 1..Len(q)}

\* The file is as the writer left it and every step of Init succeeded.
Intact == WellFormed(file) /\ ~initFailed

\* The scan started by SeekToFirst has run to its clean end.
ScanEnded == mode = "seek" /\ pc = "idle" /\ ~it.valid_ /\ it.status_ = "ok"

\* C1: on a well-formed file, SeekToFirst and then Next until Valid is false
\* yields the start offsets of exactly the records whose payload length is
\* non-zero, each once, in ascending order: what has been yielded so far is
\* always a prefix of that list, and all of it once the scan has ended.
C1_ScanYieldsLiveRecords ==
    (mode = "seek" /\ Intact) =>
        /\ IsPrefix(yielded, LiveOffsets(file))
        /\ ScanEnded => yielded = LiveOffsets(file)

\* C1 witness: a scan that ended after it skipped a zero slot and yielded a
\* record.
C1_Witness ==
    /\ ScanEnded /\ Intact
    /\ Len(yielded) >= 1
    /\ \E k \in 1..Len(file.slots) : file.slots[k].kind = "zero"

\* C3 as claimed: a status that is non-ok stays non-ok over every later
\* call, and Valid stays false (stated for the failures of an initialised
\* scanner: a failed read or decode, an out-of-bound IterateForPrev).
C3_StatusSticky ==
    [][(it.init_ /\ it.status_ # "ok") => (it'.status_ # "ok" /\ ~Valid(it'))]_vars

\* C3 as amended: Valid is false whenever the status is non-ok; the status
\* goes back to ok only in SeekToFirst or IterateForPrev (a step taken from
\* pc "idle") or in a loop iteration whose reads succeed, never when
\* PrefetchAndGet finds the cursor at or beyond the end of the records.
C3_NonOkMeansInvalid ==
    [][/\ it'.status_ # "ok" => ~Valid(it')
       /\ (it.status_ # "ok" /\ it'.status_ = "ok") => (pc = "idle" \/ InLoop(it))]_vars

\* C3 witness: a record was decoded (valid_ is set) and a later read failed.
C3_Witness == it.valid_ /\ it.status_ # "ok" /\ pc = "idle"

\* C4 as claimed: once a step of Init has failed, Init has reported it (the
\* iterator is not initialised) and the scanner is not Valid.
C4_InitFailureIsPermanent == initFailed => (~it.init_ /\ ~Valid(it))

\* Greatest start offset <= t among the live records (-1: there is none).
GreatestLiveAtOrBefore(f, t) ==
    LET c == {o \in SeqToSet(LiveOffsets(f)) : o <= t} IN
    IF c = {} THEN -1 ELSE CHOOSE o \in c : \A x \in c : x <= o

\* Greatest start offset <= t among the slots, live or zero; the first
\* record-region offset when t lies before it.
SlotAtOrBefore(f, t) ==
    LET c == {FirstOffset(f)} \cup {SlotStart(f, k) : k \in {j \in 1..Len(f.slots) : SlotStart(f, j) <= t}} IN
    CHOOSE o \in c : \A x \in c : x <= o

\* Least start offset >= o among the live records (-1: there is none).
FirstLiveFrom(f, o) ==
    LET c == {x \in SeqToSet(LiveOffsets(f)) : x >= o} IN
    IF c = {} THEN -1 ELSE CHOOSE x \in c : \A y \in c : x <= y

\* IterateForPrev(target), with target in the record region, and then one
\* Next have returned without a failed read.
PrevNextDone ==
    /\ mode = "prevnext" /\ pc = "idle" /\ it.status_ = "ok"
    /\ Intact /\ target >= file.hdr

\* C5 as claimed: IterateForPrev(t) and then Next leave the scanner Valid on
\* the live record with the greatest start offset <= t (stated for the
\* targets at or after the first slot, where such a record can exist).
C5_PrevYieldsRecordAtOrBefore ==
    (PrevNextDone /\ target >= FirstOffset(file)) =>
        (Valid(it) /\ it.cur_record_offset_ = GreatestLiveAtOrBefore(file, target))

\* C5 as amended: IterateForPrev(t) leaves the cursor on the slot, live or
\* zero, with the greatest start offset <= t (on the first slot when t lies
\* before it); the following Next is Valid on the first live record at or
\* after that slot, and not Valid when there is none.
C5_PrevYieldsFirstLiveFromSlot ==
    /\ (mode = "prev" /\ Intact /\ target >= file.hdr) =>
           it.iterate_offset_ = SlotAtOrBefore(file, target)
    /\ PrevNextDone =>
           LET o == FirstLiveFrom(file, SlotAtOrBefore(file, target)) IN
           IF o = -1 THEN ~Valid(it) ELSE (Valid(it) /\ it.cur_record_offset_ = o)

\* C5 witness: the target was exactly the start of a record that is not the
\* file's first slot, and that record is the one yielded.
C5_Witness ==
    /\ PrevNextDone /\ Valid(it)
    /\ it.cur_record_offset_ = target
    /\ target > FirstOffset(file)

\* C6 as claimed: a loop iteration that reads a header whose payload length
\* is zero decodes no record, leaves the status ok and the valid flag as it
\* was, and moves the cursor strictly forward.
C6_ZeroLengthSlotSkipped ==
    (pc = "scan" /\ InLoop(it) /\ SlotAt(file, it.iterate_offset_).kind = "zero") =>
        LET r == LoopBody(it, file, "ok") IN
        /\ r.read = "zero" /\ ~r.returns
        /\ r.it.status_ = "ok"
        /\ r.it.valid_ = it.valid_
        /\ r.it.iterate_offset_ > it.iterate_offset_

\* ------------------------------------------------------ merge scanner: claims
Count(q, k) == Cardinality({j \in 1..Len(q) : q[j] = k})

\* How many records of the children's files carry key k.
RECURSIVE TotalFrom(_, _)
TotalFrom(k, c) ==
    IF c \notin Children THEN 0 ELSE Count(KeysOf(mfiles[c]), k) + TotalFrom(k, c + 1)

\* C2: when no child fails, SeekToFirst and then Next until Valid is false
\* emits the keys in non-decreasing order, never more of a key than the
\* children hold, and exactly as many once the scan has ended.
C2_MergeEmitsSortedUnion ==
    (seeks = 1 /\ ~childFailed) =>
        /\ NonDecreasing(emitted)
        /\ \A k \in Keys : Count(emitted, k) <= TotalFrom(k, 1)
        /\ ~MergeValid => \A k \in Keys : Count(emitted, k) = TotalFrom(k, 1)

\* C2 witness: a merge over children that all hold records has ended after
\* emitting at least three keys.
C2_Witness ==
    /\ seeks = 1 /\ ~childFailed /\ ~MergeValid
    /\ Len(emitted) >= 3
    /\ \A c \in Children : Len(mfiles[c].slots) >= 1

\* C7 as claimed: once a child has failed in SeekToFirst or Next, the merge
\* scanner is not Valid and its status is non-ok.
C7_ChildFailureSurfaced == childFailed => (~MergeValid /\ MergeStatus # "ok")

\* ---------------------------------------------------------- picker: claims
Returned == pout.kind \in {"plan", "nullptr", "crash"}

Eligible(storage, e) == FindFile(storage, e.file_number).state = "kNormal"

\* The storage without the candidates that resolve to absent or to a file
\* that is not in Normal state.
WithoutIneligible(storage) ==
    [storage EXCEPT !.punch_hole_score = SelectSeq(@, LAMBDA e : Eligible(storage, e)),
                    !.gc_score = SelectSeq(@, LAMBDA e : Eligible(storage, e))]

\* C8 as claimed: candidates that resolve to absent or to a file not in
\* Normal state are skipped without a crash, and the call returns what it
\* returns without them.
C8_IneligibleCandidateSkipped ==
    Returned =>
        /\ pout.kind # "crash"
        /\ pout = PickBlobGC(WithoutIneligible(pin.storage), pin.opts, "unnoticed")

\* File numbers of the Normal files of the punch-hole list that precede its
\* first candidate whose score reaches blob_file_discardable_ratio.
PunchPrefixNormal ==
    LET l == pin.storage.punch_hole_score IN
    {l[k].file_number : k \in {j \in 1..Len(l) :
        /\ Eligible(pin.storage, l[j])
        /\ \A h \in 1..j : l[h].score < pin.opts.blob_file_discardable_ratio}}

GcListFiles == {pin.storage.gc_score[k].file_number : k \in 1..Len(pin.storage.gc_score)}

\* C9 as claimed: a punch-hole plan is returned exactly when a Normal file
\* precedes the first punch-hole candidate whose score reaches the ratio;
\* it holds files of that prefix only, and a merge plan is returned only
\* when the first loop selected nothing.
C9_PunchHolePlanIff ==
    Returned =>
        /\ (pout.kind = "plan" /\ pout.punch_hole) <=> PunchPrefixNormal # {}
        /\ (pout.kind = "plan" /\ pout.punch_hole) => SeqToSet(pout.files) \subseteq PunchPrefixNormal
        /\ (pout.kind = "plan" /\ ~pout.punch_hole) =>
               (PunchPrefixNormal = {} /\ SeqToSet(pout.files) \subseteq GcListFiles)

\* C10: a returned plan holds at least one file, every file in it is in
\* Normal state, and no file is in it twice.
C10_PlanNonEmptyNormalDistinct ==
    pout.kind = "plan" =>
        /\ Len(pout.files) >= 1
        /\ \A k \in 1..Len(pout.files) : FindFile(pin.storage, pout.files[k]).state = "kNormal"
        /\ \A j, k \in 1..Len(pout.files) : j # k => pout.files[j] # pout.files[k]

\* C10 witness: a plan of two files was returned although the lists also
\* held a candidate that is not in Normal state.
C10_Witness ==
    /\ pout.kind = "plan"
    /\ Len(pout.files) >= 2
    /\ \E n \in DOMAIN pin.storage.files : pin.storage.files[n].state # "kNormal"

\* File numbers of the Normal files of the GC list that precede its first
\* candidate whose score is not 1.0.
GcOnePrefixNormal ==
    LET l == pin.storage.gc_score IN
    {l[k].file_number : k \in {j \in 1..Len(l) :
        /\ Eligible(pin.storage, l[j])
        /\ \A h \in 1..j : l[h].score = One}}

\* C11 as claimed: in fallback mode, when the first loop selects nothing and
\* a Normal file with score 1.0 precedes the first GC candidate whose score
\* is not 1.0, the call returns a merge plan, whatever the thresholds are.
C11_FallbackAlwaysPlans ==
    (Returned /\ pin.opts.in_fallback /\ PunchPrefixNormal = {} /\ GcOnePrefixNormal # {}) =>
        (pout.kind = "plan" /\ ~pout.punch_hole)

\* The locals after the second loop of a call whose first loop selected
\* nothing and that met no null pointer.
GcBatch == GcLoop(pin.storage, pin.opts, "unnoticed", 1, PickLocals)

\* The second loop was reached and selected exactly one file, of a size at
\* most merge_small_file_threshold and a discardable ratio below
\* blob_file_discardable_ratio.
LoneSmallFile ==
    /\ PunchPrefixNormal = {}
    /\ Len(GcBatch.blob_files) = 1
    /\ LET m == FindFile(pin.storage, GcBatch.blob_files[1]) IN
       /\ m.file_size <= pin.opts.merge_small_file_threshold
       /\ DiscardableRatioBelow(m, pin.opts.blob_file_discardable_ratio)

\* C12: outside fallback mode, a batch of one small file whose discardable
\* ratio is below the threshold is never returned as a plan.
C12_LoneSmallFileRejected ==
    (Returned /\ ~pin.opts.in_fallback /\ LoneSmallFile) => pout.kind # "plan"

\* C12 witness: such a batch was rejected although its size had reached
\* min_gc_batch_size, so that only the lone-small-file check rejects it.
C12_Witness ==
    /\ pout.kind = "nullptr" /\ ~pin.opts.in_fallback /\ LoneSmallFile
    /\ GcBatch.batch_size >= pin.opts.min_gc_batch_size

\* This step is a call of the merge scanner's SeekToFirst.
IsMergeSeek == seeks' = seeks + 1

\* This step is a call of the merge scanner's Next.
IsMergeNext == seeks' = seeks /\ blob_file_iterators_' # blob_file_iterators_

\* The SeekToFirst of this step left no child valid and error-free.
SeekFoundNone ==
    \A c \in Children :
        ~(blob_file_iterators_'[c].status_ = "ok" /\ Valid(blob_file_iterators_'[c]))

\* C13 as claimed: SeekToFirst makes the merge scanner's own status Aborted
\* exactly when it finds no child valid and error-free, and the scanner is
\* then not Valid; a Next that empties the heap leaves current empty, the
\* scanner not Valid and its own status ok.
C13_AbortedIffNoValidChild ==
    [][/\ (IsMergeSeek /\ mstatus_ = "ok") => ((mstatus_' = "Aborted") <=> SeekFoundNone)
       /\ (IsMergeSeek /\ SeekFoundNone) => ~MergeValid'
       /\ IsMergeNext => mstatus_' = mstatus_
       /\ (IsMergeNext /\ current_' = 0) => (~MergeValid' /\ mstatus_' = "ok")]_vars

\* C14: on a well-formed file, with or without alignment, a scan that has
\* ended cleanly leaves the cursor exactly on the end-of-record boundary.
C14_CleanEndAtBoundary ==
    (ScanEnded /\ Intact /\ EveryRecordPadded(file)) =>
        /\ it.iterate_offset_ = it.end_of_blob_record_
        /\ it.iterate_offset_ = EndOfRecords(file)

\* C14 witness: the scan of an aligned file that ends in a live record has
\* ended after yielding its records.
C14_Witness ==
    /\ ScanEnded /\ Intact /\ EveryRecordPadded(file)
    /\ file.bs # 0 /\ Len(file.slots) = MaxSlots
    /\ file.slots[Len(file.slots)].kind = "rec"
    /\ Len(yielded) >= 1
    /\ it.iterate_offset_ = EndOfRecords(file)

\* C15: within one scan (SeekToFirst and the Next calls after it) no step
\* of PrefetchAndGet, whether it decodes a record, skips a zero slot, fails
\* or finds the end, moves the cursor backwards (Next itself only calls
\* PrefetchAndGet).
C15_CursorNeverDecreases ==
    [][(mode = "seek" /\ pc = "scan") => it'.iterate_offset_ >= it.iterate_offset_]_vars

\* C15 witness: a scan has passed a zero slot, and the read after it has
\* failed.
C15_Witness ==
    /\ mode = "seek" /\ pc = "idle" /\ it.status_ # "ok"
    /\ \E k \in 1..Len(file.slots) :
          file.slots[k].kind = "zero" /\ SlotStart(file, k) < it.iterate_offset_

\* The GC candidates the second loop can take, in list order: in fallback
\* mode those before the first candidate whose score is not 1.0, and of
\* them the ones that resolve to a Normal file.
GcEligibleSeq ==
    LET l == pin.storage.gc_score
        stop == {j \in 1..Len(l) : pin.opts.in_fallback /\ l[j].score # One}
        n == IF stop = {} THEN Len(l) ELSE (CHOOSE j \in stop : \A h \in stop : j <= h) - 1
    IN SelectSeq(SubSeq(l, 1, n), LAMBDA e : Eligible(pin.storage, e))

\* Cumulative file size and live-data size of the first k files of q.
RECURSIVE SizeOfFirst(_, _)
SizeOfFirst(q, k) ==
    IF k = 0 THEN 0 ELSE SizeOfFirst(q, k - 1) + FindFile(pin.storage, q[k]).file_size

RECURSIVE LiveOfFirst(_, _)
LiveOfFirst(q, k) ==
    IF k = 0 THEN 0 ELSE LiveOfFirst(q, k - 1) + FindFile(pin.storage, q[k]).live_data_size

MergePlanReturned == pout.kind = "plan" /\ ~pout.punch_hole

\* C16: a merge plan holds the first eligible GC candidates in list order;
\* before its last file neither cumulative size had reached
\* max_gc_batch_size nor cumulative live data blob_file_target_size, and
\* an eligible candidate is left out only when one of them was reached.
C16_BatchClosesAtThreshold ==
    MergePlanReturned =>
        LET q == pout.files
            n == Len(q)
        IN
        /\ n <= Len(GcEligibleSeq)
        /\ \A k \in 1..n : q[k] = GcEligibleSeq[k].file_number
        /\ \A k \in 0..(n - 1) :
              /\ SizeOfFirst(q, k) < pin.opts.max_gc_batch_size
              /\ LiveOfFirst(q, k) < pin.opts.blob_file_target_size
        /\ n < Len(GcEligibleSeq) =>
              \/ SizeOfFirst(q, n) >= pin.opts.max_gc_batch_size
              \/ LiveOfFirst(q, n) >= pin.opts.blob_file_target_size

\* C16 witness: a merge plan of two files that closed on the live-data
\* threshold alone and left an eligible candidate out.
C16_Witness ==
    /\ MergePlanReturned
    /\ Len(pout.files) = 2
    /\ Len(GcEligibleSeq) > 2
    /\ SizeOfFirst(pout.files, 2) < pin.opts.max_gc_batch_size
    /\ LiveOfFirst(pout.files, 2) >= pin.opts.blob_file_target_size

\* Cumulative file size of the eligible GC candidates after the first n.
RECURSIVE RemainderSize(_)
RemainderSize(n) ==
    IF n >= Len(GcEligibleSeq) THEN 0
    ELSE FindFile(pin.storage, GcEligibleSeq[n + 1].file_number).file_size + RemainderSize(n + 1)

\* The batch of the returned merge plan reached one of its thresholds.
BatchClosed ==
    \/ SizeOfFirst(pout.files, Len(pout.files)) >= pin.opts.max_gc_batch_size
    \/ LiveOfFirst(pout.files, Len(pout.files)) >= pin.opts.blob_file_target_size

\* C17: the continue flag of a returned merge plan is set exactly when the
\* batch closed and, outside fallback mode, the eligible candidates after
\* it exceed min_gc_batch_size in cumulative size (sizes are not negative,
\* so at some point means in total) or, in fallback mode, there is such a
\* candidate at all.
C17_ContinueFlagIff ==
    MergePlanReturned =>
        (pout.maybe_continue_next_time <=>
            /\ BatchClosed
            /\ IF pin.opts.in_fallback
               THEN Len(GcEligibleSeq) > Len(pout.files)
               ELSE RemainderSize(Len(pout.files)) > pin.opts.min_gc_batch_size)

\* C17 witness: outside fallback mode the flag was set by the second
\* candidate after the batch, the first alone not exceeding
\* min_gc_batch_size.
C17_Witness ==
    /\ MergePlanReturned /\ ~pin.opts.in_fallback
    /\ pout.maybe_continue_next_time
    /\ Len(pout.files) = 1 /\ Len(GcEligibleSeq) = 3
    /\ FindFile(pin.storage, GcEligibleSeq[2].file_number).file_size <= pin.opts.min_gc_batch_size

\* C18: outside fallback mode a merge plan is returned only for a batch
\* whose cumulative size is at least min_gc_batch_size or whose cumulative
\* live data is at least blob_file_target_size.
C18_MergePlanMeetsMinimum ==
    (MergePlanReturned /\ ~pin.opts.in_fallback) =>
        \/ SizeOfFirst(pout.files, Len(pout.files)) >= pin.opts.min_gc_batch_size
        \/ LiveOfFirst(pout.files, Len(pout.files)) >= pin.opts.blob_file_target_size

\* C18 witness: a merge plan whose size is below min_gc_batch_size was
\* returned because its live data reached blob_file_target_size.
C18_Witness ==
    /\ MergePlanReturned /\ ~pin.opts.in_fallback
    /\ SizeOfFirst(pout.files, Len(pout.files)) < pin.opts.min_gc_batch_size
    /\ LiveOfFirst(pout.files, Len(pout.files)) >= pin.opts.blob_file_target_size

\* File numbers of the GC candidates with score 1.0 that precede the first
\* GC candidate whose score is not 1.0.
GcOnePrefix ==
    LET l == pin.storage.gc_score IN
    {l[k].file_number : k \in {j \in 1..Len(l) : \A h \in 1..j : l[h].score = One}}

C20_IterationReturnsOrAdvances ==
    (pc = "scan" /\ InLoop(it)) =>
        \A io \in ReadOutcomes :
            LET r == LoopBody(it, file, io) IN
            r.returns \/ r.it.iterate_offset_ > it.iterate_offset_

\* How often child c occurs among the heap entries together with current.
Occurrences(c) == min_heap_[c] + (IF current_ = c THEN 1 ELSE 0)

\* C21 as claimed: after any sequence of SeekToFirst and Next calls on the
\* merge scanner, SeekToFirst called more than once included, each child
\* occurs at most once among the heap entries together with current.
C21_OnePendingRecordPerChild == \A c \in Children : Occurrences(c) <= 1

====
